---- MODULE Spec2Model ----
(***************************************************************************)
(* The !stack command of pmxbot (src/pmxbot/stack.py): the handler         *)
(* `stack(nick, rest)`, the index parser `parse_index(index, items)` and   *)
(* the topic store behind `Stack.store`.                                   *)
(*                                                                         *)
(* Text is modelled as a sequence of one-character strings, so that the    *)
(* Python string operations the code uses (split, strip, find, rfind,      *)
(* startswith, lower, `in`, int(), "%d" formatting, join) are computed     *)
(* and not assumed.                                                        *)
(***************************************************************************)
EXTENDS Integers, Sequences, FiniteSets, TLC

(***************************************************************************)
(* Bounds of the model.                                                    *)
(***************************************************************************)
MaxLen == 3        \* longest stored list an `add` may produce
MaxAtoms == 2      \* most atoms in a generated index expression
MaxInt == 4        \* largest magnitude of a generated small integer atom
Huge == 1000       \* one integer atom far past the end of any list

(***************************************************************************)
(* Python string primitives.                                               *)
(***************************************************************************)
Digits == <<"0", "1", "2", "3", "4", "5", "6", "7", "8", "9">>

\* str.find(c): 0-based offset of the first c, -1 when there is none.
RECURSIVE FindFrom(_, _, _)
FindFrom(s, c, i) ==
    IF i > Len(s) THEN -1
    ELSE IF s[i] = c THEN i - 1
    ELSE FindFrom(s, c, i + 1)

Find(s, c) == FindFrom(s, c, 1)

\* str.rfind(c): 0-based offset of the last c, -1 when there is none.
RECURSIVE RFindFrom(_, _, _)
RFindFrom(s, c, i) ==
    IF i < 1 THEN -1
    ELSE IF s[i] = c THEN i - 1
    ELSE RFindFrom(s, c, i - 1)

RFind(s, c) == RFindFrom(s, c, Len(s))

\* s[a:b] for 0 <= a, b (Python slice with non-negative bounds).
Slice(s, a, b) ==
    LET hi == IF b > Len(s) THEN Len(s) ELSE b
    IN  IF a >= hi THEN <<>> ELSE SubSeq(s, a + 1, hi)

\* str.strip(): the only white space of the model's alphabet is the blank.
RECURSIVE LStrip(_)
LStrip(s) ==
    IF s # <<>> /\ Head(s) = " " THEN LStrip(Tail(s)) ELSE s

RECURSIVE RStrip(_)
RStrip(s) ==
    IF s # <<>> /\ s[Len(s)] = " " THEN RStrip(SubSeq(s, 1, Len(s) - 1)) ELSE s

Strip(s) == RStrip(LStrip(s))

\* str.split(c, 1): at most one split, at the first c.
SplitOnce(s, c) ==
    LET k == Find(s, c)
    IN  IF k = -1 THEN <<s>>
        ELSE <<Slice(s, 0, k), Slice(s, k + 1, Len(s))>>

\* str.split(c): split at every c; always at least one part.
RECURSIVE Split(_, _)
Split(s, c) ==
    LET k == Find(s, c)
    IN  IF k = -1 THEN <<s>>
        ELSE <<Slice(s, 0, k)>> \o Split(Slice(s, k + 1, Len(s)), c)

\* sep.join(parts)
RECURSIVE Join(_, _)
Join(parts, sep) ==
    IF parts = <<>> THEN <<>>
    ELSE IF Len(parts) = 1 THEN parts[1]
    ELSE parts[1] \o sep \o Join(Tail(parts), sep)

\* str.lower(), on the letters of the model's alphabet.
LowerChar(c) ==
    CASE c = "A" -> "a"
      [] c = "B" -> "b"
      [] c = "C" -> "c"
      [] OTHER -> c

Lower(s) == [i \in 1..Len(s) |-> LowerChar(s[i])]

\* `needle in hay` for strings.
Contains(needle, hay) ==
    \E k \in 0..(Len(hay) - Len(needle)) :
        SubSeq(hay, k + 1, k + Len(needle)) = needle

StartsWith(s, c) == s # <<>> /\ s[1] = c
EndsWith(s, c) == s # <<>> /\ s[Len(s)] = c

\* "multiline".startswith(s)
Multiline == <<"m", "u", "l", "t", "i", "l", "i", "n", "e">>
IsPrefixOfMultiline(s) ==
    Len(s) <= Len(Multiline) /\ SubSeq(Multiline, 1, Len(s)) = s

\* The value of a digit character, -1 for any other character.
DigitVal(c) ==
    IF \E d \in 1..10 : Digits[d] = c
    THEN (CHOOSE d \in 1..10 : Digits[d] = c) - 1
    ELSE -1

RECURSIVE DigitsVal(_, _)
DigitsVal(s, acc) ==
    IF s = <<>> THEN acc
    ELSE DigitsVal(Tail(s), acc * 10 + DigitVal(Head(s)))

AllDigits(s) == s # <<>> /\ \A i \in 1..Len(s) : DigitVal(s[i]) >= 0

\* int(s): surrounding blanks and one sign are accepted; anything else
\* raises ValueError (ok = FALSE).
ParseInt(s) ==
    LET t == Strip(s)
        signed == t # <<>> /\ t[1] \in {"-", "+"}
        body == IF signed THEN Tail(t) ELSE t
    IN  IF AllDigits(body)
        THEN [ok |-> TRUE,
              val |-> IF signed /\ t[1] = "-"
                      THEN 0 - DigitsVal(body, 0)
                      ELSE DigitsVal(body, 0)]
        ELSE [ok |-> FALSE, val |-> 0]

\* "%d" % n
RECURSIVE NatText(_)
NatText(n) ==
    IF n < 10 THEN <<Digits[n + 1]>>
    ELSE NatText(n \div 10) \o <<Digits[(n % 10) + 1]>>

IntText(n) == IF n < 0 THEN <<"-">> \o NatText(0 - n) ELSE NatText(n)

(***************************************************************************)
(* re.search(pattern, item), for the patterns of the model: letters match  *)
(* themselves, "." matches any character (items hold no line break), and a *)
(* "(" that is never closed does not compile: re.search raises re.error,   *)
(* which is not a ValueError.                                              *)
(***************************************************************************)
ReCompiles(pattern) == ~(\E i \in 1..Len(pattern) : pattern[i] = "(")

ReSearch(pattern, item) ==
    \E k \in 0..(Len(item) - Len(pattern)) :
        \A j \in 1..Len(pattern) :
            pattern[j] = "." \/ pattern[j] = item[k + j]

(***************************************************************************)
(* parse_index(index, items).  The result is a record: exc is "none" and   *)
(* indices the list returned, or exc names the exception raised.           *)
(***************************************************************************)
None == [some |-> FALSE, text |-> <<>>]
Some(text) == [some |-> TRUE, text |-> text]

Returned(indices) == [exc |-> "none", indices |-> indices]
Raised(exc) == [exc |-> exc, indices |-> <<>>]

\* [i for i, item in enumerate(items) if atom in item.lower()]
RECURSIVE QuoteMatches(_, _, _)
QuoteMatches(atom, items, i) ==
    IF i >= Len(items) THEN <<>>
    ELSE (IF Contains(atom, Lower(items[i + 1])) THEN <<i>> ELSE <<>>)
         \o QuoteMatches(atom, items, i + 1)

\* [i for i, item in enumerate(items) if re.search(atom, item)]
RECURSIVE RegexMatches(_, _, _)
RegexMatches(atom, items, i) ==
    IF i >= Len(items) THEN <<>>
    ELSE (IF ReSearch(atom, items[i + 1]) THEN <<i>> ELSE <<>>)
         \o RegexMatches(atom, items, i + 1)

\* list(range(start, stop))
PyRange(start, stop) ==
    IF stop <= start THEN <<>>
    ELSE [k \in 1..(stop - start) |-> start + k - 1]

\* value += len(items) + 1 if value < 0; value -= 1
Shift(value, n) == (IF value < 0 THEN value + n + 1 ELSE value) - 1

\* A variant of RangeAtom that leaves the end of the range out
\* (range(start, end) for range(start, end + 1)).
RangeAtomExclusive(atom, items) ==
    LET parts == SplitOnce(atom, ":")
        startText == Strip(parts[1])
        endText == Strip(parts[2])
        start == IF startText # <<>> THEN ParseInt(startText)
                 ELSE [ok |-> TRUE, val |-> 1]
        end == IF endText # <<>> THEN ParseInt(endText)
               ELSE [ok |-> TRUE, val |-> Len(items)]
    IN  IF ~start.ok \/ ~end.ok THEN Raised("ValueError")
        ELSE Returned(PyRange(Shift(start.val, Len(items)),
                              Shift(end.val, Len(items))))

\* The `":" in atom` branch.
RangeAtom(atom, items) ==
    LET parts == SplitOnce(atom, ":")
        startText == Strip(parts[1])
        endText == Strip(parts[2])
        start == IF startText # <<>> THEN ParseInt(startText)
                 ELSE [ok |-> TRUE, val |-> 1]
        end == IF endText # <<>> THEN ParseInt(endText)
               ELSE [ok |-> TRUE, val |-> Len(items)]
    IN  IF ~start.ok \/ ~end.ok THEN Raised("ValueError")
        ELSE Returned(PyRange(Shift(start.val, Len(items)),
                              Shift(end.val, Len(items)) + 1))

\* A variant of IntAtom without the remap of a negative index.
IntAtomNoRemap(atom, items) ==
    LET index == ParseInt(atom)
    IN  IF ~index.ok THEN Raised("ValueError")
        ELSE Returned(<<index.val - 1>>)

\* The final `else` branch: a bare integer.
IntAtom(atom, items) ==
    LET index == ParseInt(atom)
    IN  IF ~index.ok THEN Raised("ValueError")
        ELSE Returned(<<Shift(index.val, Len(items))>>)

\* What one stripped, non-empty atom appends to `indices`.
AtomIndices(atom, items) ==
    IF \/ StartsWith(atom, "'") /\ EndsWith(atom, "'")
       \/ StartsWith(atom, "\"") /\ EndsWith(atom, "\"")
    THEN Returned(QuoteMatches(Lower(Slice(atom, 1, Len(atom) - 1)), items, 0))
    ELSE IF StartsWith(atom, "/") /\ EndsWith(atom, "/")
    THEN LET pattern == Slice(atom, 1, Len(atom) - 1)
         IN  IF items # <<>> /\ ~ReCompiles(pattern) THEN Raised("re.error")
             ELSE Returned(RegexMatches(pattern, items, 0))
    ELSE IF Find(atom, ":") # -1 THEN RangeAtom(atom, items)
    ELSE IF atom = <<"f", "i", "r", "s", "t">> THEN Returned(<<0>>)
    ELSE IF atom = <<"l", "a", "s", "t">> THEN Returned(<<Len(items) - 1>>)
    ELSE IntAtom(atom, items)

\* The `for atom in index.split(",")` loop, from atom k on.
RECURSIVE ParseAtoms(_, _, _, _)
ParseAtoms(atoms, k, items, indices) ==
    IF k > Len(atoms) THEN Returned(indices)
    ELSE LET atom == Strip(atoms[k])
         IN  IF atom = <<>> THEN ParseAtoms(atoms, k + 1, items, indices)
             ELSE LET r == AtomIndices(atom, items)
                  IN  IF r.exc # "none" THEN r
                      ELSE ParseAtoms(atoms, k + 1, items, indices \o r.indices)

parse_index(index, items) ==
    IF ~index.some THEN Returned(<<>>)
    ELSE ParseAtoms(Split(index.text, ","), 1, items, <<>>)

(***************************************************************************)
(* Python list primitives.                                                 *)
(***************************************************************************)
\* list.insert(k, x): a negative k counts from the end, and k is clamped.
ListInsert(items, k, x) ==
    LET j == IF k < 0 THEN k + Len(items) ELSE k
        at == IF j < 0 THEN 0 ELSE IF j > Len(items) THEN Len(items) ELSE j
    IN  SubSeq(items, 1, at) \o <<x>> \o SubSeq(items, at + 1, Len(items))

\* The list left by list.pop(i), for 0 <= i < len(items).
ListRemove(items, i) ==
    SubSeq(items, 1, i) \o SubSeq(items, i + 2, Len(items))

\* set(indices)
ToSet(indices) == {indices[k] : k \in 1..Len(indices)}

SetMax(S) == CHOOSE m \in S : \A x \in S : x <= m

(***************************************************************************)
(* The canned replies.  A reply is a text; the long help texts are kept as *)
(* one token each.                                                         *)
(***************************************************************************)
HelpKeys ==
    { <<"s", "t", "a", "c", "k">>, <<"h", "e", "l", "p">>, <<"a", "d", "d">>,
      <<"p", "o", "p">>, <<"s", "h", "o", "w">>,
      <<"s", "h", "u", "f", "f", "l", "e">>, <<"i", "n", "d", "e", "x">> }

help(key) == <<"!stack help text: ">> \o key

AddUsage == <<"!stack add <topic[index]> item: You must provide an item to add.">>
ShowUsage == help(<<"s", "h", "o", "w">>)
NonePopped == <<"(", "n", "o", "n", "e", " ", "p", "o", "p", "p", "e", "d", ")">>
Empty == <<"(", "e", "m", "p", "t", "y", ")">>
Bar == <<" ", "|", " ">>
Newline == <<"\n">>

\* What the handler hands back to the host.
Reply(text) == [kind |-> "return", text |-> text]
ReturnsNone == [kind |-> "return None", text |-> <<>>]
Escapes(exc) == [kind |-> "raise", text |-> <<exc>>]
NoResult == [kind |-> "running", text |-> <<>>]

(***************************************************************************)
(* stack(nick, rest), lines 265-286: the subcommand, then topic, index and *)
(* payload of the remainder.                                               *)
(***************************************************************************)
\* atoms = [atom.strip() for atom in rest.split(' ', 1) if atom.strip()]
CommandAtoms(rest) ==
    LET parts == SplitOnce(rest, " ")
        kept(k) == IF Strip(parts[k]) # <<>> THEN <<Strip(parts[k])>> ELSE <<>>
    IN  IF Len(parts) = 1 THEN kept(1) ELSE kept(1) \o kept(2)

Show == <<"s", "h", "o", "w">>

\* topic, index and new_item of the remainder `rest`.
TopicIndex(nick, rest) ==
    LET start == Find(rest, "[")
        finish == RFind(rest, "]")
        sp == Find(rest, " ")
    IN  IF start # -1 /\ finish # -1 /\ start < finish /\ (sp = -1 \/ start < sp)
        THEN LET parts == SplitOnce(Slice(rest, 0, finish), "[")
                 topic == Strip(parts[1])
             IN  [topic |-> IF topic = <<>> THEN nick ELSE topic,
                  index |-> Some(Strip(parts[2])),
                  new_item |-> Strip(Slice(rest, finish + 1, Len(rest)))]
        ELSE [topic |-> nick, index |-> None, new_item |-> Strip(rest)]

Syntax(nick, rest) ==
    LET atoms == CommandAtoms(rest)
        subcommand == IF Len(atoms) = 0 THEN Show ELSE atoms[1]
        rest2 == IF Len(atoms) = 2 THEN atoms[2] ELSE <<>>
        t == TopicIndex(nick, rest2)
    IN  [subcommand |-> subcommand, topic |-> t.topic, index |-> t.index,
         new_item |-> t.new_item]

(***************************************************************************)
(* The four operations on the list read, lines 297-340.                    *)
(***************************************************************************)
\* A variant of AddOne that drops a position past the end, as pop does.
AddOneDropsPastEnd(items, i, new_item) ==
    IF i >= Len(items) THEN items
    ELSE ListInsert(items, i + 1, new_item)

\* One round of the add loop.
AddOne(items, i, new_item) ==
    IF i >= Len(items) THEN Append(items, new_item)
    ELSE ListInsert(items, i + 1, new_item)

\* A variant of AddLoop that walks the positions in ascending order
\* (sorted() without reversed()).
RECURSIVE AddLoopAscending(_, _, _)
AddLoopAscending(items, S, new_item) ==
    IF S = {} THEN items
    ELSE LET i == CHOOSE m \in S : \A x \in S : m <= x
         IN  AddLoopAscending(AddOne(items, i, new_item), S \ {i}, new_item)

\* for i in reversed(sorted(set(indices))): ...   (S is what is left to do)
RECURSIVE AddLoop(_, _, _)
AddLoop(items, S, new_item) ==
    IF S = {} THEN items
    ELSE LET i == SetMax(S)
         IN  AddLoop(AddOne(items, i, new_item), S \ {i}, new_item)

\* A variant of AddItems that adds one copy at most past the end: every
\* position past the end counts as the same position.
AddItemsOncePastEnd(items, indices, new_item) ==
    IF indices = <<>> THEN ListInsert(items, 0, new_item)
    ELSE AddLoop(items,
                 {IF i >= Len(items) THEN Len(items) ELSE i : i \in ToSet(indices)},
                 new_item)

\* A variant of AddItems that puts an item added without an index at the
\* bottom (a queue, not a stack).
AddItemsAtBottom(items, indices, new_item) ==
    IF indices = <<>> THEN Append(items, new_item)
    ELSE AddLoop(items, ToSet(indices), new_item)

AddItems(items, indices, new_item) ==
    IF indices = <<>> THEN ListInsert(items, 0, new_item)
    ELSE AddLoop(items, ToSet(indices), new_item)

\* The guard of the pop comprehension, tested against the shrinking list.
PopValid(items, i) == Len(items) > i /\ i >= 0

\* A variant of PopLoop that walks the positions in ascending order
\* (sorted() without reversed()).
RECURSIVE PopLoopAscending(_, _, _)
PopLoopAscending(items, S, popped) ==
    IF S = {} THEN [items |-> items, popped_items |-> popped]
    ELSE LET i == CHOOSE m \in S : \A x \in S : m <= x
         IN  IF PopValid(items, i)
             THEN PopLoopAscending(ListRemove(items, i), S \ {i},
                                   Append(popped, items[i + 1]))
             ELSE PopLoopAscending(items, S \ {i}, popped)

\* [items.pop(i) for i in reversed(sorted(set(indices))) if len(items) > i >= 0]
RECURSIVE PopLoop(_, _, _)
PopLoop(items, S, popped) ==
    IF S = {} THEN [items |-> items, popped_items |-> popped]
    ELSE LET i == SetMax(S)
         IN  IF PopValid(items, i)
             THEN PopLoop(ListRemove(items, i), S \ {i}, Append(popped, items[i + 1]))
             ELSE PopLoop(items, S \ {i}, popped)

\* if not indices: indices = [0]
PopDefault(indices) == IF indices = <<>> THEN <<0>> ELSE indices

\* A variant of PopItems without set(): a position named twice is popped
\* twice.  `todo` is what is left of the index list.
RECURSIVE PopEach(_, _, _)
PopEach(items, todo, popped) ==
    IF todo = <<>> THEN [items |-> items, popped_items |-> popped]
    ELSE LET k == CHOOSE k \in 1..Len(todo) : \A j \in 1..Len(todo) : todo[j] <= todo[k]
             left == SubSeq(todo, 1, k - 1) \o SubSeq(todo, k + 1, Len(todo))
         IN  IF PopValid(items, todo[k])
             THEN PopEach(ListRemove(items, todo[k]), left,
                          Append(popped, items[todo[k] + 1]))
             ELSE PopEach(items, left, popped)

PopItemsKeepsRepeats(items, indices) == PopEach(items, PopDefault(indices), <<>>)

PopItems(items, indices) == PopLoop(items, ToSet(PopDefault(indices)), <<>>)

Reversed(seq) == [k \in 1..Len(seq) |-> seq[Len(seq) + 1 - k]]

\* A variant of PopReply that lists the items in removal order.
PopReplyInRemovalOrder(popped_items) ==
    LET lines == [k \in 1..Len(popped_items) |-> <<"-", ":", " ">> \o popped_items[k]]
        text == Join(lines, Bar)
    IN  IF text = <<>> THEN NonePopped ELSE text

\* " | ".join(["-: %s" % (item,) for item in reversed(popped_items)]) or "(none popped)"
PopReply(popped_items) ==
    LET lines == [k \in 1..Len(popped_items) |->
                     <<"-", ":", " ">> \o Reversed(popped_items)[k]]
        text == Join(lines, Bar)
    IN  IF text = <<>> THEN NonePopped ELSE text

\* [f(i) for i in indices if len(items) > i >= 0], as the positions kept
RECURSIVE ValidOnly(_, _)
ValidOnly(indices, n) ==
    IF indices = <<>> THEN <<>>
    ELSE (IF n > Head(indices) /\ Head(indices) >= 0 THEN <<Head(indices)>> ELSE <<>>)
         \o ValidOnly(Tail(indices), n)

\* "%d: %s" % (n, item)
Numbered(n, item) == IntText(n) \o <<":", " ">> \o item

\* if not indices: indices = range(len(items))
ShowDefault(indices, items) ==
    IF indices = <<>> THEN PyRange(0, Len(items)) ELSE indices

\* The first occurrences of a list, in order.
RECURSIVE FirstOccurrences(_, _)
FirstOccurrences(indices, seen) ==
    IF indices = <<>> THEN <<>>
    ELSE (IF Head(indices) \in seen THEN <<>> ELSE <<Head(indices)>>)
         \o FirstOccurrences(Tail(indices), seen \cup {Head(indices)})

\* A variant of ShowReply that renders a repeated position once.
ShowReplyOnce(items, indices, sep) ==
    LET shown == FirstOccurrences(ValidOnly(ShowDefault(indices, items), Len(items)), {})
        lines == [k \in 1..Len(shown) |-> Numbered(shown[k] + 1, items[shown[k] + 1])]
        text == Join(lines, sep)
    IN  IF text = <<>> THEN Empty ELSE text

\* sep.join(["%d: %s" % (i + 1, items[i]) for i in indices if ...]) or "(empty)"
ShowReply(items, indices, sep) ==
    LET shown == ValidOnly(ShowDefault(indices, items), Len(items))
        lines == [k \in 1..Len(shown) |-> Numbered(shown[k] + 1, items[shown[k] + 1])]
        text == Join(lines, sep)
    IN  IF text = <<>> THEN Empty ELSE text

\* A variant of ShuffleItems that takes each position once, as add and pop do.
ShuffleItemsOnce(items, indices, perm) ==
    IF indices = <<>> THEN [k \in 1..Len(items) |-> items[perm[k]]]
    ELSE LET kept == FirstOccurrences(ValidOnly(indices, Len(items)), {})
         IN  [k \in 1..Len(kept) |-> items[kept[k] + 1]]

\* A variant of ShuffleItems that draws with replacement (every place gets
\* the item drawn first).
ShuffleItemsWithReplacement(items, indices, perm) ==
    IF indices = <<>> THEN [k \in 1..Len(items) |-> items[perm[1]]]
    ELSE LET kept == ValidOnly(indices, Len(items))
         IN  [k \in 1..Len(kept) |-> items[kept[k] + 1]]

\* random.shuffle(items) with the permutation `perm` drawn, or
\* items = [items[i] for i in indices if len(items) > i >= 0]
ShuffleItems(items, indices, perm) ==
    IF indices = <<>> THEN [k \in 1..Len(items) |-> items[perm[k]]]
    ELSE LET kept == ValidOnly(indices, Len(items))
         IN  [k \in 1..Len(kept) |-> items[kept[k] + 1]]

\* " | ".join(["%d: %s" % (i, item) for i, item in enumerate(items, 1)]) or "(empty)"
ShuffleReply(items) ==
    LET lines == [k \in 1..Len(items) |-> Numbered(k, items[k])]
        text == Join(lines, Bar)
    IN  IF text = <<>> THEN Empty ELSE text

\* help.get(new_item, help["help"])
HelpReply(new_item) ==
    IF new_item \in HelpKeys THEN help(new_item) ELSE help(<<"h", "e", "l", "p">>)

(***************************************************************************)
(* The topic store, as MongoDBStack keeps it: one document per topic,      *)
(* holding the list.  (SQLiteStack keeps the list as one text joined by    *)
(* line breaks; what it reads back is a matter of its own.)                *)
(***************************************************************************)
NoDoc == [exists |-> FALSE, items |-> <<>>]

\* MongoDBStack.get_items
get_items(db, topic) == IF db[topic].exists THEN db[topic].items ELSE <<>>

\* MongoDBStack.save_items: update_one(..., {"$set": {"items": items}}, upsert=True)
save_items(db, topic, items) ==
    [db EXCEPT ![topic] = [exists |-> TRUE, items |-> items]]

(***************************************************************************)
(* The topic store, as SQLiteStack keeps it: one row per topic, whose      *)
(* column `items` is the list joined by line breaks.  The SELECT of both   *)
(* methods is taken as the code uses its result: the rows found, as a      *)
(* list, empty when there is no row.                                       *)
(***************************************************************************)
\* self.db.execute("SELECT items FROM stack WHERE topic = ?", [topic])
SelectItems(db, topic) == IF db[topic].exists THEN <<db[topic].items>> ELSE <<>>

\* SQLiteStack.get_items
SQLiteStack_get_items(db, topic) ==
    LET rows == SelectItems(db, topic)
    IN  IF rows = <<>> THEN <<>> ELSE Split(rows[1], "\n")

\* SQLiteStack.save_items: INSERT when there is no row, UPDATE otherwise.
SQLiteStack_save_items(db, topic, items) ==
    LET text == Join(items, Newline)
    IN  IF SelectItems(db, topic) = <<>>
        THEN [db EXCEPT ![topic] = [exists |-> TRUE, items |-> text]]
        ELSE [db EXCEPT ![topic].items = text]

\* The classes Stack.store is made from.
MongoDB == "MongoDBStack"
SQLite == "SQLiteStack"

\* Stack.store.get_items(topic)
StoreGet(class, db, topic) ==
    IF class = SQLite THEN SQLiteStack_get_items(db, topic)
    ELSE get_items(db, topic)

\* Stack.store.save_items(topic, items)
StoreSave(class, db, topic, items) ==
    IF class = SQLite THEN SQLiteStack_save_items(db, topic, items)
    ELSE save_items(db, topic, items)

(***************************************************************************)
(* stack(nick, rest) from the parse_index call to the store write: what    *)
(* the handler has computed when it reaches save_items or returns.         *)
(***************************************************************************)
Add == <<"a", "d", "d">>
Pop == <<"p", "o", "p">>
Shuffle == <<"s", "h", "u", "f", "f", "l", "e">>
Help == <<"h", "e", "l", "p">>

Outcome(indices, items, popped, save, result) ==
    [indices |-> indices, items |-> items, popped_items |-> popped,
     save |-> save, result |-> result]

\* A variant of AddBranch without the payload check.
AddBranchUnchecked(syn, got, indices) ==
    Outcome(indices, AddItems(got, indices, syn.new_item), <<>>, TRUE, ReturnsNone)

\* Lines 297-310.
AddBranch(syn, got, indices) ==
    IF syn.new_item = <<>>
    THEN Outcome(indices, got, <<>>, FALSE, Reply(AddUsage))
    ELSE Outcome(indices, AddItems(got, indices, syn.new_item), <<>>, TRUE, ReturnsNone)

\* Lines 311-320.
PopBranch(syn, got, indices) ==
    LET p == PopItems(got, indices)
    IN  Outcome(PopDefault(indices), p.items, p.popped_items, TRUE,
                Reply(PopReply(p.popped_items)))

\* Lines 321-332.
ShowBranch(syn, got, indices) ==
    IF syn.new_item # <<>> /\ ~IsPrefixOfMultiline(syn.new_item)
    THEN Outcome(indices, got, <<>>, FALSE, Reply(ShowUsage))
    ELSE Outcome(ShowDefault(indices, got), got, <<>>, FALSE,
                 Reply(ShowReply(got, indices,
                                 IF syn.new_item # <<>> THEN Newline ELSE Bar)))

\* Lines 333-340.
ShuffleBranch(got, indices, perm) ==
    LET shuffled == ShuffleItems(got, indices, perm)
    IN  Outcome(indices, shuffled, <<>>, TRUE, Reply(ShuffleReply(shuffled)))

\* Lines 341-344.
OtherBranch(syn, got, indices) ==
    IF syn.subcommand = Help
    THEN Outcome(indices, got, <<>>, FALSE, Reply(HelpReply(syn.new_item)))
    ELSE Outcome(indices, got, <<>>, FALSE, Reply(help(<<"s", "t", "a", "c", "k">>)))

\* Lines 289-292: a ValueError of parse_index is answered with help["index"];
\* any other exception leaves the handler.
Body(syn, got, perm) ==
    LET parsed == parse_index(syn.index, got)
    IN  IF parsed.exc = "ValueError"
        THEN Outcome(<<>>, got, <<>>, FALSE, Reply(help(<<"i", "n", "d", "e", "x">>)))
        ELSE IF parsed.exc # "none"
        THEN Outcome(<<>>, got, <<>>, FALSE, Escapes(parsed.exc))
        ELSE IF syn.subcommand = Add THEN AddBranch(syn, got, parsed.indices)
        ELSE IF syn.subcommand = Pop THEN PopBranch(syn, got, parsed.indices)
        ELSE IF syn.subcommand = Show THEN ShowBranch(syn, got, parsed.indices)
        ELSE IF syn.subcommand = Shuffle THEN ShuffleBranch(got, parsed.indices, perm)
        ELSE OtherBranch(syn, got, parsed.indices)

(***************************************************************************)
(* The inputs: the texts a user may send after "!stack".                   *)
(***************************************************************************)
Nick == <<"n">>
Topics == {Nick, <<"t">>}
Items == {<<"a">>, <<"A", "b">>}

IntAtoms == {IntText(n) : n \in (0 - MaxInt)..MaxInt} \cup {IntText(Huge)}

RangeAtoms ==
    { <<":">>, <<"2", ":">>, <<":", "2">>, <<"3", ":", "1">>,
      <<"-", "2", ":", "-", "1">>, <<"2", ":", "9">>, <<"1", ":", "x">> }

TextAtoms ==
    { <<"'", "a", "'">>, <<"\"", "z", "\"">>, <<"/", "a", "/">>, <<"/", "(", "/">>,
      <<"f", "i", "r", "s", "t">>, <<"l", "a", "s", "t">>, <<"x">> }

\* The atoms combined with one another.
ComboAtoms == { <<"1">>, <<"3">>, <<"0">>, <<":">>, <<"'", "a", "'">> }

\* Index expressions: nothing, one atom, or 2..MaxAtoms atoms after commas.
IndexTexts ==
    {<<>>} \cup IntAtoms \cup RangeAtoms \cup TextAtoms
    \cup {Join(atoms, <<",", " ">>) :
            atoms \in UNION {[1..k -> ComboAtoms] : k \in 2..MaxAtoms}}

Bracketed(t, ix) == t \o <<"[">> \o ix \o <<"]">>

WithPayload(head, payload) ==
    IF payload = <<>> THEN head ELSE head \o <<" ">> \o payload

\* Commands on the sender's own topic, with every index expression.
IndexedRests ==
    {WithPayload(Add \o <<" ">> \o Bracketed(<<>>, ix), payload) :
        ix \in IndexTexts, payload \in Items}
    \cup {sub \o <<" ">> \o Bracketed(<<>>, ix) :
            sub \in {Pop, Show, Shuffle}, ix \in IndexTexts}

\* Commands without brackets, usage errors, help, and the topic "t".
PlainRests ==
    {<<>>, Add, Pop, Show, Shuffle, Help, <<"l", "s">>,
     Help \o <<" ">> \o Pop, Show \o <<" ">> \o <<"m">>, Show \o <<" ">> \o <<"x">>,
     Add \o <<" ">> \o Bracketed(<<>>, <<"1">>),
     Show \o <<" ">> \o Bracketed(<<>>, <<"1">>) \o <<" ", "m", "u">>,
     Show \o <<" ">> \o Bracketed(<<>>, <<"1">>) \o <<" ", "x">>,
     Add \o <<" ">> \o Bracketed(<<"t">>, <<>>) \o <<" ", "a">>,
     Pop \o <<" ">> \o Bracketed(<<"t">>, <<>>),
     Show \o <<" ">> \o Bracketed(<<"t">>, <<>>),
     Shuffle \o <<" ">> \o Bracketed(<<"t">>, <<>>),
     Pop \o <<" ">> \o Bracketed(<<"t">>, <<"x">>)}
    \cup {Add \o <<" ">> \o payload : payload \in Items}

Rests == IndexedRests \cup PlainRests

Orderings(n) ==
    {f \in [1..n -> 1..n] : \A i, j \in 1..n : f[i] = f[j] => i = j}

(***************************************************************************)
(* The state: the store, and per running invocation of stack(nick, rest)   *)
(* its position and its local variables.                                   *)
(***************************************************************************)
VARIABLES
    store,          \* Stack.store: topic -> document
    pc,             \* "idle", "save" (before save_items) or "done" (returned)
    rest,           \* the text received
    subcommand, topic, index, new_item,     \* locals set by lines 265-286
    items,          \* the local list, changed in place
    indices,        \* the local index list
    popped_items,   \* the local list of the pop branch
    result,         \* what the handler returned or raised
    got,            \* history: the list get_items returned
    calls           \* history: the store calls of the invocations under way, in order

vars == <<store, pc, rest, subcommand, topic, index, new_item, items, indices,
          popped_items, result, got, calls>>

locals == <<rest, subcommand, topic, index, new_item, items, indices,
            popped_items, got>>

Procs == {1, 2}

\* No invocation is under way.
AllIdle ==
    /\ pc = [p \in Procs |-> "idle"]
    /\ rest = [p \in Procs |-> <<>>]
    /\ subcommand = [p \in Procs |-> <<>>]
    /\ topic = [p \in Procs |-> Nick]
    /\ index = [p \in Procs |-> None]
    /\ new_item = [p \in Procs |-> <<>>]
    /\ items = [p \in Procs |-> <<>>]
    /\ indices = [p \in Procs |-> <<>>]
    /\ popped_items = [p \in Procs |-> <<>>]
    /\ result = [p \in Procs |-> NoResult]
    /\ got = [p \in Procs |-> <<>>]
    /\ calls = <<>>

\* An empty store.
Init ==
    /\ store = [t \in Topics |-> NoDoc]
    /\ AllIdle

\* The orders random.shuffle may leave: drawn only where line 335 runs.
ShuffleOrders(syn, read) ==
    IF syn.subcommand = Shuffle /\ parse_index(syn.index, read) = Returned(<<>>)
    THEN Orderings(Len(read))
    ELSE {<<>>}

\* Lines 265-309, 311-316, 321-337, 341-344: the invocation up to its
\* save_items call, or to its return when it makes none.  Lists longer than
\* `longest` are left out of the model.  class is the class Stack.store
\* was made from.
InvokeOn(p, text, longest, class) ==
    /\ pc[p] = "idle"
    /\ \E syn \in {Syntax(Nick, text)} :
       \E read \in {StoreGet(class, store, syn.topic)} :
       \E perm \in ShuffleOrders(syn, read) :
       \E out \in {Body(syn, read, perm)} :
          /\ Len(out.items) <= longest
          /\ rest' = [rest EXCEPT ![p] = text]
          /\ subcommand' = [subcommand EXCEPT ![p] = syn.subcommand]
          /\ topic' = [topic EXCEPT ![p] = syn.topic]
          /\ index' = [index EXCEPT ![p] = syn.index]
          /\ new_item' = [new_item EXCEPT ![p] = syn.new_item]
          /\ got' = [got EXCEPT ![p] = read]
          /\ items' = [items EXCEPT ![p] = out.items]
          /\ indices' = [indices EXCEPT ![p] = out.indices]
          /\ popped_items' = [popped_items EXCEPT ![p] = out.popped_items]
          /\ calls' = Append(calls, [by |-> p, op |-> "get_items"])
          /\ pc' = [pc EXCEPT ![p] = IF out.save THEN "save" ELSE "done"]
          /\ result' = [result EXCEPT ![p] = IF out.save THEN NoResult ELSE out.result]
    /\ UNCHANGED store

\* The invocation on a MongoDBStack.
Invoke(p, text, longest) == InvokeOn(p, text, longest, MongoDB)

Begin(p, text) == Invoke(p, text, MaxLen)

\* What the handler returns after its save_items call.
AfterSave(p) ==
    IF subcommand[p] = Pop THEN Reply(PopReply(popped_items[p]))
    ELSE IF subcommand[p] = Shuffle THEN Reply(ShuffleReply(items[p]))
    ELSE ReturnsNone

\* Lines 310, 318-320, 339-340: Stack.store.save_items(topic, items), return.
\* class is the class Stack.store was made from.
SaveOn(p, class) ==
    /\ pc[p] = "save"
    /\ store' = StoreSave(class, store, topic[p], items[p])
    /\ calls' = Append(calls, [by |-> p, op |-> "save_items"])
    /\ result' = [result EXCEPT ![p] = AfterSave(p)]
    /\ pc' = [pc EXCEPT ![p] = "done"]
    /\ UNCHANGED locals

\* A variant of Save that writes only when the stored list is still the
\* list read (an optimistic check the code does not make).
SaveIfUnchanged(p) ==
    /\ pc[p] = "save"
    /\ store' = IF get_items(store, topic[p]) = got[p]
                THEN save_items(store, topic[p], items[p])
                ELSE store
    /\ calls' = Append(calls, [by |-> p, op |-> "save_items"])
    /\ result' = [result EXCEPT ![p] = AfterSave(p)]
    /\ pc' = [pc EXCEPT ![p] = "done"]
    /\ UNCHANGED locals

\* The write on a MongoDBStack.
Save(p) == SaveOn(p, MongoDB)

\* The host has the reply; the locals of the invocation are gone.
Return(p) ==
    /\ pc[p] = "done"
    /\ pc' = [pc EXCEPT ![p] = "idle"]
    /\ rest' = [rest EXCEPT ![p] = <<>>]
    /\ subcommand' = [subcommand EXCEPT ![p] = <<>>]
    /\ topic' = [topic EXCEPT ![p] = Nick]
    /\ index' = [index EXCEPT ![p] = None]
    /\ new_item' = [new_item EXCEPT ![p] = <<>>]
    /\ items' = [items EXCEPT ![p] = <<>>]
    /\ indices' = [indices EXCEPT ![p] = <<>>]
    /\ popped_items' = [popped_items EXCEPT ![p] = <<>>]
    /\ result' = [result EXCEPT ![p] = NoResult]
    /\ got' = [got EXCEPT ![p] = <<>>]
    /\ calls' = SelectSeq(calls, LAMBDA c : c.by # p)
    /\ UNCHANGED store

\* One user: commands run one after the other.
Next ==
    \/ \E text \in Rests : Begin(1, text)
    \/ Save(1)
    \/ Return(1)

Spec == Init /\ [][Next]_vars

\* Two invocations under way at once (two users, or two bots on one store):
\* the store calls of the two interleave in any order.
RaceRests ==
    {Add \o <<" ">> \o payload : payload \in Items}
    \cup {Pop, Show, Shuffle \o <<" ">> \o Bracketed(<<>>, <<"2", ",", "1">>)}

NextRace ==
    \E p \in Procs :
        \/ \E text \in RaceRests : Begin(p, text)
        \/ Save(p)
        \/ Return(p)

SpecRace == Init /\ [][NextRace]_vars

(***************************************************************************)
(* One user who adds at several positions at once: the list grows past     *)
(* MaxLen by one item, so that two insertions fall inside a list of two.   *)
(***************************************************************************)
GrowAtoms == { <<"1">>, <<"2">>, <<":">>, <<"5">>, <<"0">> }

GrowIndexTexts ==
    {Join(atoms, <<",", " ">>) :
        atoms \in UNION {[1..k -> GrowAtoms] : k \in 1..MaxAtoms}}

GrowRests ==
    {WithPayload(Add \o <<" ">> \o Bracketed(<<>>, ix), payload) :
        ix \in GrowIndexTexts, payload \in Items}
    \cup {Add \o <<" ">> \o payload : payload \in Items}
    \cup {Pop}

NextGrow ==
    \/ \E text \in GrowRests : Invoke(1, text, MaxLen + 1)
    \/ Save(1)
    \/ Return(1)

SpecGrow == Init /\ [][NextGrow]_vars

(***************************************************************************)
(* One user who uses the topic as a stack: add and pop without an index,   *)
(* and show.                                                               *)
(***************************************************************************)
LifoRests ==
    {Add \o <<" ">> \o payload : payload \in Items}
    \cup {Add \o <<" ">> \o Bracketed(<<>>, <<>>) \o <<" ">> \o payload : payload \in Items}
    \cup {Pop, Show, <<>>, Pop \o <<" ">> \o Bracketed(<<>>, <<>>),
          Show \o <<" ">> \o Bracketed(<<>>, <<>>)}

NextLifo ==
    \/ \E text \in LifoRests : Begin(1, text)
    \/ Save(1)
    \/ Return(1)

SpecLifo == Init /\ [][NextLifo]_vars

(***************************************************************************)
(* One user whose items hold brackets and blanks; a topic holds one item   *)
(* at most.                                                                *)
(***************************************************************************)
SyntaxTopics == {<<>>, <<"t">>}

SyntaxIndexTexts == {<<>>, <<"1">>, <<"2", ":">>, <<"1", ",", " ", "2">>}

SyntaxPayloads ==
    { <<>>, <<"a">>, <<"m">>, <<"a", " ", "b">>, <<"a", "[", "b">>,
      <<"a", "]", "b">>, <<"[", "a", "]">>, <<"a", " ", "[", "1", "]">>,
      <<"]", "a", "[">> }

\* The remainder `topic[index] payload`.
SyntaxForm(t, ix, payload) == WithPayload(Bracketed(t, ix), payload)

SyntaxRests ==
    {sub \o <<" ">> \o SyntaxForm(t, ix, payload) :
        sub \in {Add, Pop, Show}, t \in SyntaxTopics,
        ix \in SyntaxIndexTexts, payload \in SyntaxPayloads}
    \cup {WithPayload(sub, payload) :
            sub \in {Add, Pop, Show}, payload \in SyntaxPayloads}

NextSyntax ==
    \/ \E text \in SyntaxRests : Invoke(1, text, 1)
    \/ Save(1)
    \/ Return(1)

SpecSyntax == Init /\ [][NextSyntax]_vars

(***************************************************************************)
(* One user who selects by range: every range atom with bounds within      *)
(* MaxInt or omitted, on lists of 0..MaxLen items.                         *)
(***************************************************************************)
Omitted == [given |-> FALSE, val |-> 0]
Given(v) == [given |-> TRUE, val |-> v]

RangeBounds == {Omitted} \cup {Given(v) : v \in (0 - MaxInt)..MaxInt}

BoundText(b) == IF b.given THEN IntText(b.val) ELSE <<>>

RangeText(a, b) == BoundText(a) \o <<":">> \o BoundText(b)

RangeRests ==
    {Shuffle \o <<" ">> \o Bracketed(<<>>, RangeText(a, b)) : a, b \in RangeBounds}
    \cup {Add \o <<" ">> \o Bracketed(<<>>, RangeText(a, b)) \o <<" ", "a">> :
            a, b \in RangeBounds}
    \cup {Add \o <<" ", "a">>, Pop}

NextRange ==
    \/ \E text \in RangeRests : Begin(1, text)
    \/ Save(1)
    \/ Return(1)

SpecRange == Init /\ [][NextRange]_vars

(***************************************************************************)
(* Two users on one topic: the first adds, the second pops what was added. *)
(***************************************************************************)
RoundTripAddIndexTexts ==
    { <<"1">>, <<"0">>, <<":">>, <<"-", "3">>, <<"1", ",", " ", "3">>,
      <<"2", ",", " ", "-", "4">> }

RoundTripPopIndexTexts ==
    { <<"1">>, <<"2">>, <<"3">>, <<"1", ",", " ", "1">>, <<"1", ",", " ", "2">>,
      <<"2", ",", " ", "1">>, <<"3", ",", " ", "2">>, <<"1", ",", " ", "3">>,
      <<"2", ",", " ", "3", ",", " ", "2">>, <<"2", ":">>, <<":">> }

RoundTripAdds ==
    {Add \o <<" ">> \o payload : payload \in Items}
    \cup {Add \o <<" ">> \o Bracketed(<<>>, ix) \o <<" ">> \o payload :
            ix \in RoundTripAddIndexTexts, payload \in Items}

RoundTripPops ==
    {Pop} \cup {Pop \o <<" ">> \o Bracketed(<<>>, ix) : ix \in RoundTripPopIndexTexts}

NextRoundTrip ==
    \/ \E text \in RoundTripAdds : Begin(1, text)
    \/ \E text \in RoundTripPops : Begin(2, text)
    \/ \E p \in Procs : Save(p) \/ Return(p)

SpecRoundTrip == Init /\ [][NextRoundTrip]_vars

(***************************************************************************)
(* One user on the stack of the docstring's example: the seven colours,    *)
(* stored by seven adds at the bottom.                                     *)
(***************************************************************************)
Red == <<"r", "e", "d">>
Orange == <<"o", "r", "a", "n", "g", "e">>
Yellow == <<"y", "e", "l", "l", "o", "w">>
Green == <<"g", "r", "e", "e", "n">>
Blue == <<"b", "l", "u", "e">>
Indigo == <<"i", "n", "d", "i", "g", "o">>
Violet == <<"v", "i", "o", "l", "e", "t">>

Rainbow == <<Red, Orange, Yellow, Green, Blue, Indigo, Violet>>

\* 6, :2, "i"
ExampleIndex == <<"6", ",", " ", ":", "2", ",", " ", "\"", "i", "\"">>

ExampleIndexTexts ==
    { ExampleIndex, <<"6">>, <<":", "2">>, <<"\"", "i", "\"">>, <<"-", "1">>,
      <<"/", "o", ".", "a", "/">> }

\* Every selection is shown; the bottom item is popped, and "indigo" is
\* added at the bottom (the docstring's "another indigo entry").
ExampleRests ==
    {Show \o <<" ">> \o Bracketed(<<>>, ix) : ix \in ExampleIndexTexts}
    \cup {Show, Pop \o <<" ">> \o Bracketed(<<>>, <<"-", "1">>),
          Add \o <<" ">> \o Bracketed(<<>>, <<"-", "1">>) \o <<" ">> \o Indigo}

InitExample ==
    /\ AllIdle
    /\ store = [t \in Topics |-> IF t = Nick THEN [exists |-> TRUE, items |-> Rainbow]
                                 ELSE NoDoc]

NextExample ==
    \/ \E text \in ExampleRests : Invoke(1, text, Len(Rainbow))
    \/ Save(1)
    \/ Return(1)

SpecExample == InitExample /\ [][NextExample]_vars

(***************************************************************************)
(* One user on a SQLiteStack: the handler is the same, Stack.store is the  *)
(* SQLite class, and a stored row holds the list joined by line breaks.    *)
(***************************************************************************)
SQLiteRests ==
    {Add \o <<" ">> \o payload : payload \in Items}
    \cup {Pop \o <<" ">> \o Bracketed(tp, ix) :
              tp \in {<<>>, <<"t">>}, ix \in {<<>>, <<":">>, <<"1">>}}
    \cup {Add \o <<" ">> \o Bracketed(<<"t">>, <<>>) \o <<" ">> \o <<"a">>,
          Pop, Show, Shuffle, Show \o <<" ">> \o Bracketed(<<"t">>, <<>>)}

\* The invocation on a SQLiteStack.
InvokeSQLite(p, text) == InvokeOn(p, text, MaxLen, SQLite)

\* The write on a SQLiteStack.
SaveSQLite(p) == SaveOn(p, SQLite)

NextSQLite ==
    \/ \E text \in SQLiteRests : InvokeSQLite(1, text)
    \/ SaveSQLite(1)
    \/ Return(1)

SpecSQLite == Init /\ [][NextSQLite]_vars

(***************************************************************************)
(* One user who adds at positions before the top and far past the bottom:  *)
(* zero, negative integers beyond the length, ranges that run past the     *)
(* end, and repeats.  A list may grow to twice MaxLen.                     *)
(***************************************************************************)
\* 0   -1   -4   -9   9   1, 1   0:2   2:6   0, 3:5   -9, 7
InsertIndexTexts ==
    { <<"0">>, <<"-", "1">>, <<"-", "4">>, <<"-", "9">>, <<"9">>,
      <<"1", ",", " ", "1">>, <<"0", ":", "2">>, <<"2", ":", "6">>,
      <<"0", ",", " ", "3", ":", "5">>, <<"-", "9", ",", " ", "7">> }

InsertRests ==
    {Add \o <<" ">> \o Bracketed(<<>>, ix) \o <<" ">> \o payload :
        ix \in InsertIndexTexts \cup {<<>>}, payload \in Items}
    \cup {Add \o <<" ">> \o payload : payload \in Items}
    \cup {Pop, Show}

NextInsert ==
    \/ \E text \in InsertRests : Invoke(1, text, MaxLen + MaxLen)
    \/ Save(1)
    \/ Return(1)

SpecInsert == Init /\ [][NextInsert]_vars

(***************************************************************************)
(* Notions the properties share.                                           *)
(***************************************************************************)
\* What parse_index made of the index expression against the list read.
Resolved(p) == parse_index(index[p], got[p])

\* The invocation of p has returned to the host.
Done(p) == pc[p] = "done"

\* An index expression was written between the brackets.
Supplied(p) == index[p].some /\ index[p].text # <<>>

\* The positions of I that name an item of a list of length n.
ValidSet(I, n) == {i \in ToSet(I) : 0 <= i /\ i < n}

\* The stored list of a topic.
Stored(t) == store[t].items

(***************************************************************************)
(* C1.  A pop whose supplied index expression selects no valid position    *)
(* (only out-of-range positions, or no position at all) removes nothing,   *)
(* leaves the stored list equal to the list read and answers               *)
(* "(none popped)".                                                        *)
(***************************************************************************)
C1_SelectsNothing(p) ==
    /\ Done(p)
    /\ subcommand[p] = Pop
    /\ Supplied(p)
    /\ Resolved(p).exc = "none"
    /\ ValidSet(Resolved(p).indices, Len(got[p])) = {}

\* C1: a pop whose supplied index selects no valid position removes nothing,
\* stores the list it read and answers "(none popped)".
C1_PopOfNoValidPositionRemovesNothing ==
    \A p \in Procs :
        C1_SelectsNothing(p) =>
            /\ items[p] = got[p]
            /\ Stored(topic[p]) = got[p]
            /\ result[p] = Reply(NonePopped)

(***************************************************************************)
(* C2.  A show whose supplied index expression matches no item answers     *)
(* "(empty)" and renders no item.                                          *)
(***************************************************************************)
C2_MatchesNothing(p) ==
    /\ Done(p)
    /\ subcommand[p] = Show
    /\ new_item[p] = <<>>
    /\ Supplied(p)
    /\ Resolved(p) = Returned(<<>>)

\* C2: a show whose supplied index matches no item answers "(empty)".
C2_ShowOfNoMatchIsEmpty ==
    \A p \in Procs : C2_MatchesNothing(p) => result[p] = Reply(Empty)

(***************************************************************************)
(* C3.  After `add topic[k] x` with 1 <= k <= n the new item is the item   *)
(* at 1-based position k, before the item that was at k, so that           *)
(* `show topic[k]` renders "k: x".                                         *)
(***************************************************************************)
\* The invocation of p is a successful add with a single integer index.
AddAtInteger(p) ==
    /\ Done(p)
    /\ subcommand[p] = Add
    /\ result[p] = ReturnsNone
    /\ index[p].some
    /\ ParseInt(index[p].text).ok

\* The integer written as the index.
IndexInteger(p) == ParseInt(index[p].text).val

\* C3: after `add topic[k] x`, 1 <= k <= n, x is at position k, before the
\* item that was there, and `show topic[k]` renders "k: x".
C3_AddPutsItemAtIndex ==
    \A p \in Procs :
        (AddAtInteger(p) /\ 1 <= IndexInteger(p) /\ IndexInteger(p) <= Len(got[p])) =>
            LET k == IndexInteger(p)
            IN  /\ Stored(topic[p]) =
                      SubSeq(got[p], 1, k - 1) \o <<new_item[p]>>
                      \o SubSeq(got[p], k, Len(got[p]))
                /\ ShowReply(Stored(topic[p]), <<k - 1>>, Bar) = Numbered(k, new_item[p])

(***************************************************************************)
(* C4.  For a non-empty resolved index list I, pop persists the list read  *)
(* without exactly the positions of set(I) that lie in 0..len-1, the rest  *)
(* in their order; a position named twice removes one element.             *)
(***************************************************************************)
\* The items of L at the positions from i on that are not in S.
RECURSIVE KeepOutside(_, _, _)
KeepOutside(L, S, i) ==
    IF i >= Len(L) THEN <<>>
    ELSE (IF i \in S THEN <<>> ELSE <<L[i + 1]>>) \o KeepOutside(L, S, i + 1)

C4_Case(p) ==
    /\ pc[p] \in {"save", "done"}
    /\ subcommand[p] = Pop
    /\ Resolved(p).exc = "none"
    /\ Resolved(p).indices # <<>>

\* C4: pop persists the list read without the valid positions of set(I),
\* and removes one element per such position.
C4_PopRemovesExactlyTheValidSet ==
    \A p \in Procs :
        C4_Case(p) =>
            LET S == ValidSet(Resolved(p).indices, Len(got[p]))
                kept == KeepOutside(got[p], S, 0)
            IN  /\ items[p] = kept
                /\ Len(popped_items[p]) = Cardinality(S)
                /\ Done(p) => Stored(topic[p]) = kept

\* `pop [3, 3]` on three items has removed the last one only.
C4_Witness ==
    \E p \in Procs :
        /\ C4_Case(p) /\ Done(p)
        /\ Resolved(p).indices = <<2, 2>>
        /\ Len(got[p]) = 3
        /\ Stored(topic[p]) = SubSeq(got[p], 1, 2)

(***************************************************************************)
(* C5.  For a non-empty resolved index list I, shuffle persists            *)
(* [L[i] for i in I], in the order of I with repeats, skipping the         *)
(* positions outside 0..len-1.                                             *)
(***************************************************************************)
RECURSIVE Pick(_, _)
Pick(L, I) ==
    IF I = <<>> THEN <<>>
    ELSE (IF 0 <= Head(I) /\ Head(I) < Len(L) THEN <<L[Head(I) + 1]>> ELSE <<>>)
         \o Pick(L, Tail(I))

C5_Case(p) ==
    /\ pc[p] \in {"save", "done"}
    /\ subcommand[p] = Shuffle
    /\ Resolved(p).exc = "none"
    /\ Resolved(p).indices # <<>>

RECURSIVE Entries(_, _)
Entries(L, I) ==
    IF I = <<>> THEN <<>>
    ELSE (IF 0 <= Head(I) /\ Head(I) < Len(L)
          THEN <<Numbered(Head(I) + 1, L[Head(I) + 1])>> ELSE <<>>)
         \o Entries(L, Tail(I))

C6_Case(p) ==
    /\ Done(p)
    /\ subcommand[p] = Show
    /\ new_item[p] = <<>> \/ IsPrefixOfMultiline(new_item[p])
    /\ Resolved(p).exc = "none"
    /\ Resolved(p).indices # <<>>

RECURSIVE OpsOf(_, _)
OpsOf(p, cs) ==
    IF cs = <<>> THEN <<>>
    ELSE (IF Head(cs).by = p THEN <<Head(cs).op>> ELSE <<>>) \o OpsOf(p, Tail(cs))

C7_EndsWithoutWrite(p) ==
    \/ Resolved(p).exc # "none"
    \/ subcommand[p] = Add /\ new_item[p] = <<>>
    \/ subcommand[p] \notin {Add, Pop, Shuffle}

C7_CallsMade ==
    \A p \in Procs :
        /\ Done(p) =>
              OpsOf(p, calls) = IF C7_EndsWithoutWrite(p) THEN <<"get_items">>
                                ELSE <<"get_items", "save_items">>
        /\ pc[p] = "save" => (~C7_EndsWithoutWrite(p) /\ OpsOf(p, calls) = <<"get_items">>)
        /\ pc[p] = "idle" => OpsOf(p, calls) = <<>>

\* The store changes only in the save_items call of an invocation, which
\* replaces the list of its topic by its local list.
C7_StoreStep ==
    store' # store =>
        \E p \in Procs :
            /\ pc[p] = "save" /\ pc'[p] = "done"
            /\ calls' = Append(calls, [by |-> p, op |-> "save_items"])
            /\ store' = [store EXCEPT ![topic[p]] = [exists |-> TRUE, items |-> items[p]]]

\* C7: an invocation that ends without success or does not mutate calls
\* get_items only; a successful add, pop or shuffle calls save_items once
\* after it; the store changes in that call alone.
C7_OnlySuccessfulMutationsWrite == []C7_CallsMade /\ [][C7_StoreStep]_vars

\* `add [1]` without an item, on a topic that holds items.
C7_Witness ==
    \E p \in Procs :
        /\ Done(p)
        /\ subcommand[p] = Add /\ new_item[p] = <<>> /\ index[p].some
        /\ result[p] = Reply(AddUsage)
        /\ Stored(topic[p]) # <<>>

(***************************************************************************)
(* C9.  The reply of pop lists the removed items in ascending order of     *)
(* their positions in the list read, each as "-: item", joined by " | ";   *)
(* `pop [:]` on three items answers all three so and leaves the list       *)
(* empty.                                                                  *)
(***************************************************************************)
\* "-: item" for the items of L at the positions from i on that are in S.
RECURSIVE Removed(_, _, _)
Removed(L, S, i) ==
    IF i >= Len(L) THEN <<>>
    ELSE (IF i \in S THEN <<(<<"-", ":", " ">> \o L[i + 1])>> ELSE <<>>)
         \o Removed(L, S, i + 1)

C9_Case(p) == Done(p) /\ subcommand[p] = Pop /\ Resolved(p).exc = "none"

C9_PopAll(p) == C9_Case(p) /\ index[p] = Some(<<":">>) /\ Len(got[p]) = 3

C10_Case(p) == AddAtInteger(p) /\ IndexInteger(p) > Len(got[p])

\* C10: add with an integer index above the length appends the item.
C10_AddPastEndAppends ==
    \A p \in Procs : C10_Case(p) => Stored(topic[p]) = Append(got[p], new_item[p])

C10_Witness ==
    \E p \in Procs :
        /\ C10_Case(p)
        /\ IndexInteger(p) = Huge
        /\ Len(got[p]) = 2 /\ new_item[p] # got[p][2]


(***************************************************************************)
(* C8.  Nothing separates the get_items of a mutating command from its     *)
(* save_items: when two mutating commands on one topic have both read      *)
(* before either writes, the stored list after both is the later writer's  *)
(* result computed from the list it read, and the earlier writer's effect  *)
(* is gone.                                                                *)
(***************************************************************************)
Call(p, op) == [by |-> p, op |-> op]

\* p and q have both returned, both read before either wrote, q wrote last.
C8_Interleaved(p, q) ==
    /\ p # q /\ Done(p) /\ Done(q)
    /\ topic[p] = topic[q]
    /\ calls \in
         { <<Call(p, "get_items"), Call(q, "get_items"),
             Call(p, "save_items"), Call(q, "save_items")>>,
           <<Call(q, "get_items"), Call(p, "get_items"),
             Call(p, "save_items"), Call(q, "save_items")>> }

\* C8: after two interleaved mutating invocations on one topic the stored
\* list is the later writer's result, computed from the list it read.
C8_LaterWriteWins ==
    \A p, q \in Procs :
        C8_Interleaved(p, q) =>
            /\ Stored(topic[q]) = items[q]
            /\ Stored(topic[q]) = Body(Syntax(Nick, rest[q]), got[q], <<>>).items

\* Two adds to the same list: the list holds the later item only.
C8_Witness ==
    \E p, q \in Procs :
        /\ C8_Interleaved(p, q)
        /\ subcommand[p] = Add /\ subcommand[q] = Add
        /\ new_item[p] # new_item[q]
        /\ got[p] = <<>> /\ got[q] = <<>>
        /\ Stored(topic[q]) = <<new_item[q]>>


(***************************************************************************)
(* C11.  For a non-empty resolved index list I of positions >= 0, add      *)
(* persists the items of L in their order, a copy of the payload right     *)
(* after each item whose position is in set(I), then one copy per position *)
(* of set(I) that is >= len(L).                                            *)
(***************************************************************************)
\* The items of L from position i on, each followed by x when its position
\* is in S.
RECURSIVE C11_Interleaved(_, _, _, _)
C11_Interleaved(L, S, x, i) ==
    IF i >= Len(L) THEN <<>>
    ELSE <<L[i + 1]>> \o (IF i \in S THEN <<x>> ELSE <<>>)
         \o C11_Interleaved(L, S, x, i + 1)

C11_Reference(L, I, x) ==
    C11_Interleaved(L, ToSet(I), x, 0)
    \o [k \in 1..Cardinality({i \in ToSet(I) : i >= Len(L)}) |-> x]

C11_Case(p) ==
    /\ pc[p] \in {"save", "done"}
    /\ subcommand[p] = Add
    /\ new_item[p] # <<>>
    /\ Resolved(p).exc = "none"
    /\ Resolved(p).indices # <<>>
    /\ \A i \in ToSet(Resolved(p).indices) : i >= 0

C12_Push(stack, x) == <<x>> \o stack
C12_Top(stack) == Head(stack)
C12_Drop(stack) == Tail(stack)

\* "1: top | 2: next | ..." for the stack from its k-th item on.
RECURSIVE C12_Listing(_, _)
C12_Listing(stack, k) ==
    IF k > Len(stack) THEN <<>>
    ELSE IntText(k) \o <<":", " ">> \o stack[k]
         \o (IF k < Len(stack) THEN Bar ELSE <<>>) \o C12_Listing(stack, k + 1)

\* The store call of an add or a pop is a push or a pop of the stored list.
C12_WriteStep(p) ==
    (pc[p] = "save" /\ pc'[p] = "done") =>
        LET stack == Stored(topic[p])
            after == store'[topic[p]].items
        IN  /\ subcommand[p] = Add => after = C12_Push(stack, new_item[p])
            /\ (subcommand[p] = Pop /\ stack # <<>>) =>
                  /\ after = C12_Drop(stack)
                  /\ result'[p] = Reply(<<"-", ":", " ">> \o C12_Top(stack))
            /\ (subcommand[p] = Pop /\ stack = <<>>) =>
                  /\ after = <<>>
                  /\ result'[p] = Reply(NonePopped)

\* A show answers the stored list from the top.
C12_ShowStep(p) ==
    (pc[p] = "idle" /\ pc'[p] = "done" /\ subcommand'[p] = Show) =>
        result'[p] = Reply(IF Stored(topic'[p]) = <<>> THEN Empty
                           ELSE C12_Listing(Stored(topic'[p]), 1))

\* C12: under add and pop without an index each add pushes at position 1,
\* each pop removes and reports the top or "(none popped)", and show lists
\* the items newest first.
C12_StoredListIsLifoStack ==
    [][\A p \in Procs : C12_WriteStep(p) /\ C12_ShowStep(p)]_vars

\* A pop after two adds of different items has reported the later one.
C12_Witness ==
    \E p \in Procs :
        /\ Done(p) /\ subcommand[p] = Pop /\ ~index[p].some
        /\ Len(got[p]) = 2 /\ got[p][1] # got[p][2]
        /\ result[p] = Reply(<<"-", ":", " ">> \o got[p][1])
        /\ Stored(topic[p]) = <<got[p][2]>>

(***************************************************************************)
(* C13.  A remainder `T[E]` followed by a payload P, the first "[" before  *)
(* the first blank, yields topic T (the sender's nick for an empty T),     *)
(* index expression E and payload P, also when P holds "[" or "]"; a       *)
(* remainder without such a bracket prefix is all payload, with the        *)
(* sender's topic and no index.                                            *)
(***************************************************************************)
\* The text after the subcommand of the text p received.
C13_Remainder(p) ==
    LET parts == SplitOnce(rest[p], " ")
    IN  IF Len(parts) = 2 THEN Strip(parts[2]) ELSE <<>>

\* r begins with a bracket pair: a "[" with no blank before it and a "]"
\* after it.
C13_HasBracketPrefix(r) ==
    \E i, j \in 1..Len(r) :
        /\ i < j /\ r[i] = "[" /\ r[j] = "]"
        /\ \A k \in 1..(i - 1) : r[k] # " "

C13_Parsed(p) == pc[p] \in {"save", "done"}

\* C13: `T[E] P` yields topic T (or the nick), index E and payload P, also
\* for a payload holding brackets; without a bracket prefix the remainder is
\* the payload, with the default topic and no index.
C13_SyntaxYieldsTopicIndexPayload ==
    \A p \in Procs :
        C13_Parsed(p) =>
            /\ \A t \in SyntaxTopics, ix \in SyntaxIndexTexts, payload \in SyntaxPayloads :
                  C13_Remainder(p) = SyntaxForm(t, ix, payload) =>
                      /\ topic[p] = IF t = <<>> THEN Nick ELSE t
                      /\ index[p] = Some(ix)
                      /\ new_item[p] = payload
            /\ ~C13_HasBracketPrefix(C13_Remainder(p)) =>
                  /\ topic[p] = Nick
                  /\ index[p] = None
                  /\ new_item[p] = C13_Remainder(p)

(***************************************************************************)
(* C14.  On a list of n items a range atom `A:B` with integer or omitted   *)
(* bounds never fails and yields the integers conv(A)..conv(B) in          *)
(* ascending order, where an omitted A is 1, an omitted B is n, a negative *)
(* bound v is v + n + 1, and both are then reduced by 1; no position when  *)
(* conv(A) > conv(B).                                                      *)
(***************************************************************************)
C14_Conv(b, default, n) ==
    LET v == IF b.given THEN b.val ELSE default
    IN  (IF v < 0 THEN v + n + 1 ELSE v) - 1

\* first, first + 1, ..., last
C14_FromTo(first, last) ==
    IF first > last THEN <<>>
    ELSE [k \in 1..(last - first + 1) |-> first + k - 1]

\* The invocation of p is an add or a shuffle whose index is the range a:b.
C14_Case(p, a, b) ==
    /\ pc[p] \in {"save", "done"}
    /\ subcommand[p] \in {Add, Shuffle}
    /\ index[p] = Some(RangeText(a, b))

\* C14: a range atom with integer or omitted bounds never fails and yields
\* conv(A)..conv(B) in ascending order, nothing when conv(A) > conv(B).
C14_RangeYieldsInclusiveRun ==
    \A p \in Procs : \A a, b \in RangeBounds :
        C14_Case(p, a, b) =>
            LET n == Len(got[p])
            IN  /\ result[p].kind # "raise"
                /\ result[p] # Reply(help(<<"i", "n", "d", "e", "x">>))
                /\ indices[p] = C14_FromTo(C14_Conv(a, 1, n), C14_Conv(b, n, n))

\* `[-2:]` on three items: the last two positions.
C14_Witness ==
    \E p \in Procs :
        /\ C14_Case(p, Given(-2), Omitted)
        /\ Len(got[p]) = 3
        /\ indices[p] = <<1, 2>>

(***************************************************************************)
(* C15.  On a list of n >= 1 items `[-1]` names the item `[n]` names, the  *)
(* bottom one: `pop [-1]` removes exactly that item, and `add [-1] x`      *)
(* leaves x as the new bottom item, at position n + 1, the other items     *)
(* where they were.                                                        *)
(***************************************************************************)
C15_Case(p) ==
    /\ Done(p)
    /\ index[p] = Some(<<"-", "1">>)
    /\ Len(got[p]) >= 1

\* C15: `[-1]` is the bottom item: pop [-1] removes it alone and add [-1] x
\* makes x the new bottom item.
C15_MinusOneIsTheBottom ==
    \A p \in Procs :
        C15_Case(p) =>
            LET n == Len(got[p])
            IN  /\ subcommand[p] \in {Add, Pop, Shuffle} => indices[p] = <<n - 1>>
                /\ parse_index(Some(IntText(n)), got[p]) = Returned(<<n - 1>>)
                /\ subcommand[p] = Pop =>
                      /\ Stored(topic[p]) = SubSeq(got[p], 1, n - 1)
                      /\ popped_items[p] = <<got[p][n]>>
                      /\ result[p] = Reply(<<"-", ":", " ">> \o got[p][n])
                /\ subcommand[p] = Show =>
                      result[p] = Reply(IntText(n) \o <<":", " ">> \o got[p][n])
                /\ (subcommand[p] = Add /\ new_item[p] # <<>>) =>
                      /\ Stored(topic[p]) = got[p] \o <<new_item[p]>>
                      /\ Len(Stored(topic[p])) = n + 1

\* `add [-1] x` on two items, the second of which is not x.
C15_Witness ==
    \E p \in Procs :
        /\ C15_Case(p) /\ subcommand[p] = Add
        /\ Len(got[p]) = 2 /\ got[p][2] # new_item[p]
        /\ Stored(topic[p]) = <<got[p][1], got[p][2], new_item[p]>>

(***************************************************************************)
(* C16.  Round trip: after an add of x to the list L, a pop whose index    *)
(* expression names exactly the positions the copies of x were inserted    *)
(* at, in any order and with repeats, persists L again and reports copies  *)
(* of x only.                                                              *)
(***************************************************************************)
\* The sets of positions of M at which copies of x may have been inserted
\* into L: copies of x whose removal leaves L.  (Where an inserted copy
\* lies next to an equal item of L there are several such sets; they name
\* the same insertion.)
C16_Inserted(L, M, x) ==
    {S \in SUBSET (0..(Len(M) - 1)) :
        /\ Cardinality(S) = Len(M) - Len(L)
        /\ \A i \in S : M[i + 1] = x
        /\ KeepOutside(M, S, 0) = L}

C16_Added(p) ==
    /\ Done(p) /\ subcommand[p] = Add /\ result[p] = ReturnsNone

\* p has added, then q has popped on the same topic; the pop has read the
\* list the add wrote.
C16_AddThenPop(p, q) ==
    /\ p # q /\ C16_Added(p)
    /\ Done(q) /\ subcommand[q] = Pop /\ topic[q] = topic[p]
    /\ calls = <<Call(p, "get_items"), Call(p, "save_items"),
                 Call(q, "get_items"), Call(q, "save_items")>>
    /\ got[q] = items[p]
    /\ Supplied(q) /\ Resolved(q).exc = "none"
    /\ ToSet(Resolved(q).indices) \in C16_Inserted(got[p], items[p], new_item[p])

\* C16: an add inserts copies of x only, and a pop that names exactly the
\* positions of those copies persists the list the add read and reports
\* copies of x only.
C16_AddThenPopRestores ==
    /\ \A p \in Procs :
          C16_Added(p) => C16_Inserted(got[p], items[p], new_item[p]) # {}
    /\ \A p, q \in Procs :
          C16_AddThenPop(p, q) =>
              /\ Stored(topic[q]) = got[p]
              /\ Len(popped_items[q]) = Len(items[p]) - Len(got[p])
              /\ \A k \in 1..Len(popped_items[q]) : popped_items[q][k] = new_item[p]
              /\ result[q] =
                   Reply(Join([k \in 1..Len(popped_items[q]) |->
                                  <<"-", ":", " ">> \o new_item[p]], Bar))

\* `add [1, 3] x` on one other item, then `pop [2, 3, 2]`.
C16_Witness ==
    \E p, q \in Procs :
        /\ C16_AddThenPop(p, q)
        /\ Len(got[p]) = 1 /\ got[p][1] # new_item[p]
        /\ items[p] = <<got[p][1], new_item[p], new_item[p]>>
        /\ Resolved(q).indices = <<1, 2, 1>>
        /\ Stored(topic[q]) = got[p]

(***************************************************************************)
(* C17.  An item matched by several atoms of an index expression is        *)
(* selected once: on the seven colours, `[6, :2, "i"]` identifies          *)
(* "6: indigo | 1: red | 2: orange | 7: violet".                           *)
(***************************************************************************)
C17_Identified ==
    <<"6", ":", " ">> \o Indigo \o Bar \o <<"1", ":", " ">> \o Red \o Bar
    \o <<"2", ":", " ">> \o Orange \o Bar \o <<"7", ":", " ">> \o Violet

\* The invocation of p has shown a selection.
C17_Selected(p) ==
    /\ Done(p) /\ subcommand[p] = Show /\ new_item[p] = <<>>
    /\ Supplied(p) /\ Resolved(p).exc = "none"

\* C17: no position is selected twice, and `[6, :2, "i"]` on the seven
\* colours shows indigo, red, orange and violet, indigo once.
C17_MatchedItemIsIncludedOnce ==
    \A p \in Procs :
        C17_Selected(p) =>
            /\ \A j, k \in 1..Len(indices[p]) :
                  indices[p][j] = indices[p][k] => j = k
            /\ (index[p] = Some(ExampleIndex) /\ got[p] = Rainbow) =>
                  result[p] = Reply(C17_Identified)

(***************************************************************************)
(* C18.  Whatever the subcommand and the list, an index expression with an *)
(* atom that is no integer, range, quoted text, regular expression or      *)
(* sentinel (a range with a bound that is no integer and a `/pattern/`     *)
(* that is no regular expression included) is answered with the index      *)
(* help: the failure does not leave the handler.                           *)
(***************************************************************************)
\* The text is an optionally signed run of digits.
C18_IsInteger(text) ==
    \/ AllDigits(text)
    \/ Len(text) > 1 /\ text[1] \in {"-", "+"} /\ AllDigits(Tail(text))

C18_IsBound(text) == Strip(text) = <<>> \/ C18_IsInteger(Strip(text))

C18_IsQuoted(atom) ==
    Len(atom) >= 2 /\ atom[1] = atom[Len(atom)] /\ atom[1] \in {"'", "\""}

C18_IsSlashed(atom) == Len(atom) >= 2 /\ atom[1] = "/" /\ atom[Len(atom)] = "/"

\* The atom is none of the forms of an index.
C18_Malformed(atom) ==
    IF C18_IsQuoted(atom) THEN FALSE
    ELSE IF C18_IsSlashed(atom)
    THEN \E k \in 2..(Len(atom) - 1) : atom[k] = "("
    ELSE IF \E k \in 1..Len(atom) : atom[k] = ":"
    THEN \E part \in ToSet(SplitOnce(atom, ":")) : ~C18_IsBound(part)
    ELSE /\ atom \notin {<<"f", "i", "r", "s", "t">>, <<"l", "a", "s", "t">>}
         /\ ~C18_IsInteger(atom)

\* The index expression of p holds a malformed atom.
C18_Case(p) ==
    /\ Done(p)
    /\ index[p].some
    /\ \E atom \in ToSet(Split(index[p].text, ",")) :
          Strip(atom) # <<>> /\ C18_Malformed(Strip(atom))

\* C18: an index expression with a malformed atom is answered with the
\* index help, for every subcommand and every list; no exception escapes.
C18_MalformedIndexIsAnswered ==
    \A p \in Procs :
        C18_Case(p) =>
            /\ result[p].kind # "raise"
            /\ result[p] = Reply(help(<<"i", "n", "d", "e", "x">>))

(***************************************************************************)
(* C19.  The record of a topic that has none is created only by the write  *)
(* of a successful add or shuffle; a pop on an unseen topic, which removes *)
(* nothing, creates none.                                                  *)
(***************************************************************************)
\* The step makes the record of topic t.
C19_Created(t) == ~store[t].exists /\ store'[t].exists

\* C19: a step that creates the record of a topic is the save_items call of
\* an add or a shuffle on that topic.
C19_RecordCreatedByAddOrShuffle ==
    [][\A t \in Topics :
          C19_Created(t) =>
              \E p \in Procs :
                  /\ pc[p] = "save" /\ pc'[p] = "done"
                  /\ topic[p] = t
                  /\ subcommand[p] \in {Add, Shuffle}]_vars

(***************************************************************************)
(* C20.  A shuffle given no index persists a permutation of the list it    *)
(* read (same length, same items as often), whichever order is drawn, and  *)
(* answers the new order numbered from 1.                                  *)
(***************************************************************************)
\* How often x occurs in the list.
C20_Count(x, list) == Cardinality({k \in 1..Len(list) : list[k] = x})

C20_Case(p) ==
    /\ pc[p] \in {"save", "done"}
    /\ subcommand[p] = Shuffle
    /\ ~Supplied(p)

\* C20: shuffle without an index persists a permutation of the list read
\* and answers it numbered 1..n.
C20_ShufflePersistsPermutation ==
    \A p \in Procs :
        C20_Case(p) =>
            /\ Len(items[p]) = Len(got[p])
            /\ \A x \in ToSet(got[p]) \cup ToSet(items[p]) :
                  C20_Count(x, items[p]) = C20_Count(x, got[p])
            /\ Done(p) =>
                  /\ Stored(topic[p]) = items[p]
                  /\ result[p] = Reply(IF items[p] = <<>> THEN Empty
                                       ELSE C12_Listing(items[p], 1))

\* Three items, not all equal, left in another order than they were read.
C20_Witness ==
    \E p \in Procs :
        /\ C20_Case(p) /\ Done(p)
        /\ Len(got[p]) = 3
        /\ Stored(topic[p]) # got[p]
        /\ Stored(topic[p])[1] = got[p][3]

(***************************************************************************)
(* C21.  On the SQLite store, get_items after save_items(topic, L) returns *)
(* exactly L for every list L of non-empty items, the empty list included: *)
(* a stack emptied by a pop is read back as the empty list and shown as    *)
(* "(empty)", and a topic that was never saved reads as the empty list.    *)
(***************************************************************************)
\* The handler of p has just written its list, whose items are non-empty.
C21_Saved(p) ==
    /\ Done(p)
    /\ calls # <<>> /\ calls[Len(calls)] = Call(p, "save_items")
    /\ \A i \in 1..Len(items[p]) : items[p][i] # <<>>

C21_SQLiteRoundTrip ==
    /\ \A p \in Procs :
          C21_Saved(p) =>
              /\ SQLiteStack_get_items(store, topic[p]) = items[p]
              /\ (subcommand[p] = Pop /\ items[p] = <<>>) =>
                    ShowReply(SQLiteStack_get_items(store, topic[p]), <<>>, Bar)
                        = Empty
    /\ \A t \in Topics :
          ~store[t].exists => SQLiteStack_get_items(store, t) = <<>>

(***************************************************************************)
(* C22.  A successful add never removes or reorders an item of the list    *)
(* it read, and lengthens the list by exactly the number of distinct       *)
(* resolved positions (by 1 when there are none), whatever the positions:  *)
(* below 0, or any number of them past the end.  One copy of the payload   *)
(* per distinct position, with no cap.                                     *)
(***************************************************************************)
\* The number of copies the add of p has to insert.
C22_Copies(p) ==
    IF Resolved(p).indices = <<>> THEN 1
    ELSE Cardinality(ToSet(Resolved(p).indices))

C22_Case(p) ==
    /\ pc[p] \in {"save", "done"}
    /\ subcommand[p] = Add
    /\ new_item[p] # <<>>
    /\ Resolved(p).exc = "none"

C22_AddOnlyInserts ==
    \A p \in Procs :
        C22_Case(p) =>
            /\ Len(items[p]) = Len(got[p]) + C22_Copies(p)
            /\ \E S \in SUBSET (0..(Len(items[p]) - 1)) :
                  /\ Cardinality(S) = C22_Copies(p)
                  /\ \A i \in S : items[p][i + 1] = new_item[p]
                  /\ KeepOutside(items[p], S, 0) = got[p]
            /\ Done(p) => Stored(topic[p]) = items[p]

\* `add [0, 3:5] x` on two items that are not x: one position below 0 and
\* three past the end, four copies.
C22_Witness ==
    \E p \in Procs :
        /\ C22_Case(p) /\ Done(p)
        /\ Resolved(p).indices = <<-1, 2, 3, 4>>
        /\ Len(got[p]) = 2 /\ got[p][1] # new_item[p] /\ got[p][2] # new_item[p]
        /\ Stored(topic[p]) = <<new_item[p], got[p][1], got[p][2],
                                new_item[p], new_item[p], new_item[p]>>
====
